---- MODULE Spec2Model ----
(***************************************************************************)
(* Model of the Adafruit_AW9523 driver (src/Adafruit_AW9523.cpp).          *)
(*                                                                         *)
(* The driver keeps one field, i2c_dev.  Everything else lives in the      *)
(* expander's register file, reached through bus transactions.  Every      *)
(* driver method is translated into an operator that threads a bus record  *)
(* [regs, trace, n] through the transactions the method performs, in the   *)
(* order the C++ evaluates them, and an action that applies it.            *)
(*                                                                         *)
(* 32-bit C values (uint32_t, and int after integer promotion) are sets of *)
(* bit positions in 0..31, so that ~, <<, >>, & and | are computed on the  *)
(* full width.  Register bytes are kept as numbers in 0..255.              *)
(***************************************************************************)
EXTENDS Integers, Sequences, FiniteSets

(***************************************************************************)
(* Bounds of the model.                                                    *)
(***************************************************************************)
\* number of driver calls in one behaviour
MaxCalls == 1
\* number of bus transactions of one call that the bus may fail to acknowledge
MaxFaults == 1

(***************************************************************************)
(* Register map and constants.                                             *)
(***************************************************************************)
AW9523_REG_INPUT0 == 0
AW9523_REG_INPUT1 == 1
AW9523_REG_OUTPUT0 == 2
AW9523_REG_OUTPUT1 == 3
AW9523_REG_CONFIG0 == 4
AW9523_REG_CONFIG1 == 5
AW9523_REG_INTENABLE0 == 6
AW9523_REG_INTENABLE1 == 7
AW9523_REG_CHIPID == 16
AW9523_REG_GCR == 17
AW9523_REG_LEDMODE0 == 18
AW9523_REG_LEDMODE1 == 19
AW9523_REG_SOFTRESET == 127
\* pinMode's mode values
INPUT == 0
OUTPUT == 1
AW9523_LED_MODE == 153
\* the signature begin expects in the chip-ID register (0x23)
CHIP_SIGNATURE == 35
\* bases of the three dimming-register ranges (0x24, 0x20, 0x2C)
DIM_BASE_A == 36
DIM_BASE_B == 32
DIM_BASE_C == 44
\* pins are numbered 0 .. NUM_PINS-1
NUM_PINS == 16

Pins == 0 .. (NUM_PINS - 1)
Bytes == 0 .. 255

\* The addresses the model's register file holds: the port registers and the
\* one after them, the chip-ID/GCR/LED-mode block and the one after it, the
\* sixteen dimming registers and the soft-reset register.
Addrs == (2 .. 8) \cup (16 .. 20) \cup (32 .. 47) \cup {AW9523_REG_SOFTRESET}

(***************************************************************************)
(* 32-bit values: the set of the positions of the bits that are 1.         *)
(***************************************************************************)
Bit32 == 0 .. 31

\* the bits of each byte value
ByteBits == [n \in 0 .. 255 |-> {i \in 0 .. 7 : (n \div (2 ^ i)) % 2 = 1}]

\* the uint32_t with the value n, 0 <= n < 2^31, byte by byte
ToU32(n) ==
    ByteBits[n % 256]
    \cup {i + 8 : i \in ByteBits[(n \div 256) % 256]}
    \cup {i + 16 : i \in ByteBits[(n \div 65536) % 256]}
    \cup {i + 24 : i \in ByteBits[n \div 16777216]}

\* (uint32_t)-1
AllOnes32 == Bit32

Not32(v) == Bit32 \ v

And32(v, w) == v \cap w

Or32(v, w) == v \cup w

Shl32(v, s) == {i + s : i \in v} \cap Bit32

Shr32(v, s) == {i - s : i \in v} \cap Bit32

\* byte k (0 = least significant) of v, as a number
ByteOf(v, k) ==
    LET bit(j) == IF 8 * k + j \in v THEN 2 ^ j ELSE 0
    IN  bit(0) + bit(1) + bit(2) + bit(3) + bit(4) + bit(5) + bit(6) + bit(7)

\* conversion to uint16_t / bool
Low16(v) == ByteOf(v, 0) + 256 * ByteOf(v, 1)

NonZero(v) == v # {}

B2I(b) == IF b THEN 1 ELSE 0

(***************************************************************************)
(* State.                                                                  *)
(***************************************************************************)
VARIABLES
    regs,      \* the expander's register file: Addrs -> Bytes
    i2c_dev,   \* TRUE when the driver holds a transport object
    last,      \* the last call: its name, arguments, return value and the
               \* bus transactions it made, in order
    pre,       \* the register file as it was when the last call started
    calls      \* number of calls made

vars == <<regs, i2c_dev, last, pre, calls>>

(***************************************************************************)
(* The transport and the device behind it.                                 *)
(*                                                                         *)
(* A bus record b = [regs, trace, n] holds the device registers, the       *)
(* transactions made so far in this call and their number.  F is the set   *)
(* of transaction numbers of the call that the bus does not acknowledge.   *)
(* The device auto-increments the register address inside a transaction:   *)
(* byte i of a transaction at address a goes to (comes from) register      *)
(* a + i.  The input registers mirror the output registers (loopback).     *)
(***************************************************************************)
FaultSets(n) == {F \in SUBSET (1 .. n) : Cardinality(F) <= MaxFaults}

NewBus(r) == [regs |-> r, trace |-> <<>>, n |-> 0]

DevLoad(r, a) ==
    IF a = AW9523_REG_INPUT0 THEN r[AW9523_REG_OUTPUT0]
    ELSE IF a = AW9523_REG_INPUT1 THEN r[AW9523_REG_OUTPUT1]
    ELSE IF a \in Addrs THEN r[a]
    ELSE 0

\* a transaction carries one or two bytes
DevStore(r, a, bytes) ==
    LET r1 == IF a \in Addrs THEN [r EXCEPT ![a] = bytes[1]] ELSE r
    IN  IF Len(bytes) > 1 /\ a + 1 \in Addrs
        THEN [r1 EXCEPT ![a + 1] = bytes[2]]
        ELSE r1

\* Adafruit_I2CDevice::write of a register address followed by data bytes
I2CWrite(b, F, a, bytes) ==
    LET k == b.n + 1
        ack == k \notin F
    IN  [bus |-> [regs |-> IF ack THEN DevStore(b.regs, a, bytes) ELSE b.regs,
                  trace |-> Append(b.trace,
                      [kind |-> "write", addr |-> a, data |-> bytes, ack |-> ack]),
                  n |-> k],
         ok |-> ack]

\* Adafruit_I2CDevice::write_then_read of count bytes from a register address
I2CRead(b, F, a, count) ==
    LET k == b.n + 1
        ack == k \notin F
        bytes == IF ack THEN [i \in 1 .. count |-> DevLoad(b.regs, a + i - 1)]
                 ELSE <<>>
    IN  [bus |-> [regs |-> b.regs,
                  trace |-> Append(b.trace,
                      [kind |-> "read", addr |-> a, data |-> bytes, ack |-> ack]),
                  n |-> k],
         ok |-> ack,
         data |-> bytes]

(***************************************************************************)
(* Adafruit_I2CRegister: a view [addr, width] of width bytes at addr, least *)
(* significant byte first (every view the driver builds is LSBFIRST).      *)
(***************************************************************************)
I2CRegister(a, w) == [addr |-> a, width |-> w]

\* write(value): the low width bytes of value, least significant first
RegWrite(b, F, reg, value) ==
    I2CWrite(b, F, reg.addr, [i \in 1 .. reg.width |-> ByteOf(value, i - 1)])

\* read(): the width bytes assembled into a uint32_t; (uint32_t)-1 on failure
RegRead(b, F, reg) ==
    LET r == I2CRead(b, F, reg.addr, reg.width)
    IN  [bus |-> r.bus,
         val |-> IF ~r.ok THEN AllOnes32
                 ELSE IF reg.width = 1 THEN ToU32(r.data[1])
                 ELSE Or32(Shl32(ToU32(r.data[2]), 8), ToU32(r.data[1]))]

(***************************************************************************)
(* Adafruit_I2CRegisterBits: bits bits at shift inside a register view.    *)
(***************************************************************************)
\* read(): (reg.read() >> shift) & ((1 << bits) - 1)
BitsRead(b, F, reg, bits, shift) ==
    LET r == RegRead(b, F, reg)
    IN  [bus |-> r.bus,
         val |-> And32(Shr32(r.val, shift), ToU32((2 ^ bits) - 1))]

\* write(data): read the register, clear the field, or the data in, write back
BitsWrite(b, F, reg, bits, shift, data) ==
    LET r == RegRead(b, F, reg)
        mask == ToU32((2 ^ bits) - 1)
        d == And32(data, mask)
        cleared == And32(r.val, Not32(Shl32(mask, shift)))
        val == Or32(cleared, Shl32(d, shift))
    IN  RegWrite(r.bus, F, reg, val)

(***************************************************************************)
(* The driver's methods.  Each takes the bus record at its start and the   *)
(* fault set of the call and returns [bus, ret]; ret is the C++ return     *)
(* value as a number (a bool as 0 or 1, 0 for void).                       *)
(***************************************************************************)
\* !first.write(v0) || !second.write(v1): the second write is skipped when
\* the first fails
WriteBoth(b, F, reg0, v0, reg1, v1) ==
    LET w0 == RegWrite(b, F, reg0, v0)
    IN  IF ~w0.ok THEN [bus |-> w0.bus, ret |-> 0]
        ELSE LET w1 == RegWrite(w0.bus, F, reg1, v1)
             IN  [bus |-> w1.bus, ret |-> B2I(w1.ok)]

reset(b, F) ==
    LET w == RegWrite(b, F, I2CRegister(AW9523_REG_SOFTRESET, 1), ToU32(0))
    IN  [bus |-> w.bus, ret |-> B2I(w.ok)]

outputGPIO(b, F, pins) ==
    WriteBoth(b, F,
        I2CRegister(AW9523_REG_OUTPUT0, 2), ToU32(pins),
        I2CRegister(AW9523_REG_OUTPUT1, 2), ToU32(pins))

\* The two operands of | are read in either order (in1First); the result is
\* converted to uint16_t.
inputGPIO(b, F, in1First) ==
    LET input0reg == I2CRegister(AW9523_REG_INPUT0, 2)
        input1reg == I2CRegister(AW9523_REG_INPUT1, 2)
        a == RegRead(b, F, IF in1First THEN input1reg ELSE input0reg)
        c == RegRead(a.bus, F, IF in1First THEN input0reg ELSE input1reg)
        v1 == IF in1First THEN a.val ELSE c.val
        v0 == IF in1First THEN c.val ELSE a.val
    IN  [bus |-> c.bus, ret |-> Low16(Or32(Shl32(v1, 8), v0))]

interruptEnableGPIO(b, F, pins) ==
    WriteBoth(b, F,
        I2CRegister(AW9523_REG_INTENABLE0, 2), Not32(ToU32(pins)),
        I2CRegister(AW9523_REG_INTENABLE1, 2), Not32(ToU32(pins \div 256)))

\* Mutant of configureDirection: the mask is stored as given, not inverted.
configureDirection_NotInverted(b, F, pins) ==
    WriteBoth(b, F,
        I2CRegister(AW9523_REG_CONFIG0, 2), ToU32(pins),
        I2CRegister(AW9523_REG_CONFIG1, 2), ToU32(pins \div 256))

configureDirection(b, F, pins) ==
    WriteBoth(b, F,
        I2CRegister(AW9523_REG_CONFIG0, 2), Not32(ToU32(pins)),
        I2CRegister(AW9523_REG_CONFIG1, 2), Not32(ToU32(pins \div 256)))

configureLEDMode(b, F, pins) ==
    WriteBoth(b, F,
        I2CRegister(AW9523_REG_LEDMODE0, 2), Not32(ToU32(pins)),
        I2CRegister(AW9523_REG_LEDMODE1, 2), Not32(ToU32(pins \div 256)))

\* Mutant of DimRegister: the sixteen dimming registers taken as contiguous.
DimRegister_Contiguous(pin, junk) == DIM_BASE_B + pin

\* The dimming register of a pin; junk is the indeterminate initial content
\* of the local reg, which stays when none of the three ranges holds the pin.
DimRegister(pin, junk) ==
    LET r1 == IF pin >= 0 /\ pin <= 7 THEN DIM_BASE_A + pin ELSE junk
        r2 == IF pin >= 8 /\ pin <= 11 THEN DIM_BASE_B + pin - 8 ELSE r1
    IN  IF pin >= 12 /\ pin <= 15 THEN DIM_BASE_C + pin - 12 ELSE r2

analogWrite(b, F, pin, val, junk) ==
    LET w == RegWrite(b, F, I2CRegister(DimRegister(pin, junk), 1), ToU32(val))
    IN  [bus |-> w.bus, ret |-> 0]

\* Mutant of digitalWrite: the bit is written without reading the register
\* first, so the sibling bits are lost.
digitalWrite_NoRead(b, F, pin, val) ==
    LET w == RegWrite(b, F, I2CRegister(AW9523_REG_OUTPUT0, 2),
                      Shl32(ToU32(val), pin))
    IN  [bus |-> w.bus, ret |-> 0]

digitalWrite(b, F, pin, val) ==
    LET w == BitsWrite(b, F, I2CRegister(AW9523_REG_OUTPUT0, 2), 1, pin,
                       ToU32(val))
    IN  [bus |-> w.bus, ret |-> 0]

digitalRead(b, F, pin) ==
    LET inputreg == IF pin >= 8 THEN I2CRegister(AW9523_REG_INPUT1, 2)
                    ELSE I2CRegister(AW9523_REG_INPUT0, 2)
        outPin == IF pin >= 8 THEN pin - 8 ELSE pin
        r == BitsRead(b, F, inputreg, 1, outPin)
    IN  [bus |-> r.bus, ret |-> B2I(NonZero(r.val))]

enableInterrupt(b, F, pin, en) ==
    LET intenablereg == IF pin >= 8 THEN I2CRegister(AW9523_REG_INTENABLE1, 2)
                        ELSE I2CRegister(AW9523_REG_INTENABLE0, 2)
        w == BitsWrite(b, F, intenablereg, 1, pin, ToU32(1 - en))
    IN  [bus |-> w.bus, ret |-> 0]

\* confbit.write(c); modebit.write(m)
WriteConfAndMode(b, F, confreg, ledmodereg, outPin, c, m) ==
    LET w1 == BitsWrite(b, F, confreg, 1, outPin, ToU32(c))
    IN  BitsWrite(w1.bus, F, ledmodereg, 1, outPin, ToU32(m)).bus

\* Mutant of pinMode: the bit fields sit at pin, not at pin - 8, in the
\* registers of port 1.
pinMode_PinShift(b, F, pin, mode) ==
    LET confreg == IF pin >= 8 THEN I2CRegister(AW9523_REG_CONFIG1, 2)
                   ELSE I2CRegister(AW9523_REG_CONFIG0, 2)
        ledmodereg == IF pin >= 8 THEN I2CRegister(AW9523_REG_LEDMODE1, 2)
                      ELSE I2CRegister(AW9523_REG_LEDMODE0, 2)
        b1 == IF mode = OUTPUT
              THEN WriteConfAndMode(b, F, confreg, ledmodereg, pin, 0, 1)
              ELSE b
        b2 == IF mode = INPUT
              THEN WriteConfAndMode(b1, F, confreg, ledmodereg, pin, 1, 1)
              ELSE b1
        b3 == IF mode = AW9523_LED_MODE
              THEN WriteConfAndMode(b2, F, confreg, ledmodereg, pin, 0, 0)
              ELSE b2
    IN  [bus |-> b3, ret |-> 0]

pinMode(b, F, pin, mode) ==
    LET confreg == IF pin >= 8 THEN I2CRegister(AW9523_REG_CONFIG1, 2)
                   ELSE I2CRegister(AW9523_REG_CONFIG0, 2)
        ledmodereg == IF pin >= 8 THEN I2CRegister(AW9523_REG_LEDMODE1, 2)
                      ELSE I2CRegister(AW9523_REG_LEDMODE0, 2)
        outPin == IF pin >= 8 THEN pin - 8 ELSE pin
        b1 == IF mode = OUTPUT
              THEN WriteConfAndMode(b, F, confreg, ledmodereg, outPin, 0, 1)
              ELSE b
        b2 == IF mode = INPUT
              THEN WriteConfAndMode(b1, F, confreg, ledmodereg, outPin, 1, 1)
              ELSE b1
        b3 == IF mode = AW9523_LED_MODE
              THEN WriteConfAndMode(b2, F, confreg, ledmodereg, outPin, 0, 0)
              ELSE b2
    IN  [bus |-> b3, ret |-> 0]

\* Mutant of openDrainPort0: od is written as given, not inverted.
openDrainPort0_NotInverted(b, F, od) ==
    LET w == BitsWrite(b, F, I2CRegister(AW9523_REG_GCR, 1), 1, 4, ToU32(od))
    IN  [bus |-> w.bus, ret |-> B2I(w.ok)]

openDrainPort0(b, F, od) ==
    LET w == BitsWrite(b, F, I2CRegister(AW9523_REG_GCR, 1), 1, 4,
                       ToU32(1 - od))
    IN  [bus |-> w.bus, ret |-> B2I(w.ok)]

\* Mutant of begin: the chip-ID is read but a mismatch does not stop begin.
begin_NoIdCheck(b, F, openOk) ==
    LET b0 == [b EXCEPT !.trace = Append(b.trace,
                  [kind |-> "open", addr |-> 0, data |-> <<>>, ack |-> openOk])]
        r == reset(b0, F)
        id == RegRead(r.bus, F, I2CRegister(AW9523_REG_CHIPID, 1))
        c == configureDirection(id.bus, F, 0)
        o == openDrainPort0(c.bus, F, 0)
        i == interruptEnableGPIO(o.bus, F, 0)
    IN  IF ~openOk THEN [bus |-> b0, ret |-> 0]
        ELSE IF r.ret = 0 THEN [bus |-> r.bus, ret |-> 0]
        ELSE [bus |-> i.bus, ret |-> 1]

\* openOk is the result of opening the transport (Adafruit_I2CDevice::begin),
\* recorded in the trace as an "open" entry; it is no register access.
begin(b, F, openOk) ==
    LET b0 == [b EXCEPT !.trace = Append(b.trace,
                  [kind |-> "open", addr |-> 0, data |-> <<>>, ack |-> openOk])]
        r == reset(b0, F)
        id == RegRead(r.bus, F, I2CRegister(AW9523_REG_CHIPID, 1))
        c == configureDirection(id.bus, F, 0)
        o == openDrainPort0(c.bus, F, 0)
        i == interruptEnableGPIO(o.bus, F, 0)
    IN  IF ~openOk THEN [bus |-> b0, ret |-> 0]
        ELSE IF r.ret = 0 THEN [bus |-> r.bus, ret |-> 0]
        ELSE IF id.val # ToU32(CHIP_SIGNATURE) THEN [bus |-> id.bus, ret |-> 0]
        ELSE [bus |-> i.bus, ret |-> 1]

(***************************************************************************)
(* Inputs of the calls and prior register contents.                        *)
(***************************************************************************)
\* 0x0000, 0xFFFF, 0x1234
Masks == {0, 65535, 4660}
\* dimming values
Vals == {0, 165}
\* INPUT, OUTPUT, LED mode and a mode pinMode does not know (INPUT_PULLUP)
Modes == {INPUT, OUTPUT, AW9523_LED_MODE, 2}
Bools == {0, 1}
\* indeterminate content of analogWrite's local reg (never used for a pin in
\* 0..15: one of the three ranges holds it)
Junk == {AW9523_REG_GCR}
\* Prior register contents: all zeros, all ones, or a mixed pattern, with the
\* chip-ID register holding the signature; and the mixed pattern behind a
\* chip-ID register that holds another value (0x22).
Fill(k, id) ==
    [a \in Addrs |->
        IF a = AW9523_REG_CHIPID THEN id
        ELSE IF k = 0 THEN 0
        ELSE IF k = 1 THEN 255
        ELSE IF a % 2 = 0 THEN 165 ELSE 60]

InitRegs == {Fill(k, CHIP_SIGNATURE) : k \in 0 .. 2} \cup {Fill(2, 34)}

NoCall == [op |-> "none", pin |-> 0, arg |-> 0, ret |-> 0, trace |-> <<>>]

\* The driver as constructed (no transport yet), or as an earlier begin left
\* it (begin sets i2c_dev before any of its checks); the device holds any of
\* the prior contents.
Init ==
    /\ regs \in InitRegs
    /\ i2c_dev \in BOOLEAN
    /\ last = NoCall
    /\ pre = regs
    /\ calls = 0

(***************************************************************************)
(* Actions: one per public method.  A method other than begin needs the    *)
(* transport object begin creates.  last and pre record the call for the   *)
(* properties below; the driver itself keeps nothing but i2c_dev.          *)
(***************************************************************************)
Call(name, pin, arg, result) ==
    LET r == result IN
    /\ regs' = r.bus.regs
    /\ last' = [op |-> name, pin |-> pin, arg |-> arg, ret |-> r.ret,
                trace |-> r.bus.trace]
    /\ pre' = regs
    /\ calls' = calls + 1

\* Calls are made one at a time, the next one after the last has returned.
Idle == last = NoCall /\ calls < MaxCalls

Ready == i2c_dev /\ Idle

\* The caller takes the return value: the record of the call is dropped.
Return ==
    /\ last # NoCall
    /\ last' = NoCall
    /\ pre' = regs
    /\ UNCHANGED <<regs, i2c_dev, calls>>

Begin ==
    /\ Idle
    /\ \E openOk \in BOOLEAN, F \in FaultSets(8) :
           Call("begin", 0, B2I(openOk), begin(NewBus(regs), F, openOk))
    /\ i2c_dev' = TRUE

Reset ==
    /\ Ready
    /\ \E F \in FaultSets(1) : Call("reset", 0, 0, reset(NewBus(regs), F))
    /\ UNCHANGED i2c_dev

OutputGPIO ==
    /\ Ready
    /\ \E m \in Masks, F \in FaultSets(2) :
           Call("outputGPIO", 0, m, outputGPIO(NewBus(regs), F, m))
    /\ UNCHANGED i2c_dev

InputGPIO ==
    /\ Ready
    /\ \E F \in FaultSets(2), in1First \in BOOLEAN :
           Call("inputGPIO", 0, 0, inputGPIO(NewBus(regs), F, in1First))
    /\ UNCHANGED i2c_dev

InterruptEnableGPIO ==
    /\ Ready
    /\ \E m \in Masks, F \in FaultSets(2) :
           Call("interruptEnableGPIO", 0, m,
                interruptEnableGPIO(NewBus(regs), F, m))
    /\ UNCHANGED i2c_dev

ConfigureDirection ==
    /\ Ready
    /\ \E m \in Masks, F \in FaultSets(2) :
           Call("configureDirection", 0, m,
                configureDirection(NewBus(regs), F, m))
    /\ UNCHANGED i2c_dev

ConfigureLEDMode ==
    /\ Ready
    /\ \E m \in Masks, F \in FaultSets(2) :
           Call("configureLEDMode", 0, m, configureLEDMode(NewBus(regs), F, m))
    /\ UNCHANGED i2c_dev

AnalogWrite ==
    /\ Ready
    /\ \E p \in Pins, v \in Vals, j \in Junk, F \in FaultSets(1) :
           Call("analogWrite", p, v, analogWrite(NewBus(regs), F, p, v, j))
    /\ UNCHANGED i2c_dev

DigitalWrite ==
    /\ Ready
    /\ \E p \in Pins, v \in Bools, F \in FaultSets(2) :
           Call("digitalWrite", p, v, digitalWrite(NewBus(regs), F, p, v))
    /\ UNCHANGED i2c_dev

DigitalRead ==
    /\ Ready
    /\ \E p \in Pins, F \in FaultSets(1) :
           Call("digitalRead", p, 0, digitalRead(NewBus(regs), F, p))
    /\ UNCHANGED i2c_dev

EnableInterrupt ==
    /\ Ready
    /\ \E p \in Pins, en \in Bools, F \in FaultSets(2) :
           Call("enableInterrupt", p, en,
                enableInterrupt(NewBus(regs), F, p, en))
    /\ UNCHANGED i2c_dev

PinMode ==
    /\ Ready
    /\ \E p \in Pins, mode \in Modes :
           \E F \in FaultSets(IF mode = 2 THEN 0 ELSE 4) :
               Call("pinMode", p, mode, pinMode(NewBus(regs), F, p, mode))
    /\ UNCHANGED i2c_dev

OpenDrainPort0 ==
    /\ Ready
    /\ \E od \in Bools, F \in FaultSets(2) :
           Call("openDrainPort0", 0, od, openDrainPort0(NewBus(regs), F, od))
    /\ UNCHANGED i2c_dev

Next ==
    \/ Begin
    \/ Reset
    \/ OutputGPIO
    \/ InputGPIO
    \/ InterruptEnableGPIO
    \/ ConfigureDirection
    \/ ConfigureLEDMode
    \/ AnalogWrite
    \/ DigitalWrite
    \/ DigitalRead
    \/ EnableInterrupt
    \/ PinMode
    \/ OpenDrainPort0
    \/ Return

Spec == Init /\ [][Next]_vars

(***************************************************************************)
(* Vocabulary of the properties.                                           *)
(***************************************************************************)
\* bit k of the byte n
BitAt(n, k) == (n \div (2 ^ k)) % 2

\* ~n & 0xFF
InvByte(n) == 255 - (n % 256)

\* every transaction of a trace was acknowledged
AllAcked(t) == \A i \in 1 .. Len(t) : t[i].ack

\* the register of pin q's port in the pair that starts at base
PortReg(base, q) == IF q < 8 THEN base ELSE base + 1

\* the recorded output bit of pin q
OutBit(r, q) == BitAt(r[PortReg(AW9523_REG_OUTPUT0, q)], q % 8)

\* r and s agree on every register outside the set keep
SameOutside(r, s, keep) == \A a \in Addrs \ keep : r[a] = s[a]

\* r and s agree on every bit of register a but bit k
SameButBit(r, s, a, k) == \A j \in (0 .. 7) \ {k} : BitAt(r[a], j) = BitAt(s[a], j)

\* transaction e writes register a
Writes(e, a) == e.kind = "write" /\ a >= e.addr /\ a < e.addr + Len(e.data)

\* C1: for every pin p, value v and prior output content, after a
\* digitalWrite(p, v) whose transactions were all acknowledged, digitalRead(p)
\* on the loopback device returns v, and the output bit of every other pin is
\* what it was before the call.
C1_DigitalWriteReadBack ==
    (last.op = "digitalWrite" /\ AllAcked(last.trace)) =>
        /\ digitalRead(NewBus(regs), {}, last.pin).ret = last.arg
        /\ \A q \in Pins \ {last.pin} : OutBit(regs, q) = OutBit(pre, q)

\* C1 witness: digitalWrite(9, 1) on a device whose output bit 9 was 0 and
\* whose other output bits are not all alike.
C1_Witness ==
    /\ last.op = "digitalWrite" /\ AllAcked(last.trace)
    /\ last.pin = 9 /\ last.arg = 1
    /\ OutBit(pre, 9) = 0 /\ OutBit(regs, 9) = 1
    /\ pre[AW9523_REG_OUTPUT0] = 165

\* C2: for every mask m, after an outputGPIO(m) whose transactions were all
\* acknowledged, inputGPIO() on the loopback device returns exactly m.
C2_OutputInputRoundTrip ==
    (last.op = "outputGPIO" /\ AllAcked(last.trace)) =>
        \A in1First \in BOOLEAN :
            inputGPIO(NewBus(regs), {}, in1First).ret = last.arg

\* C3: for every pin p and prior content, after an acknowledged
\* enableInterrupt(p, true) bit p mod 8 of the interrupt-enable register of
\* p's port is 0, no other bit of intenable0 or intenable1 has changed and no
\* other register has changed.
C3_EnableInterruptClearsBit ==
    (last.op = "enableInterrupt" /\ last.arg = 1 /\ AllAcked(last.trace)) =>
        LET a == PortReg(AW9523_REG_INTENABLE0, last.pin)
        IN  /\ BitAt(regs[a], last.pin % 8) = 0
            /\ SameButBit(regs, pre, a, last.pin % 8)
            /\ SameOutside(regs, pre, {a})

\* C4: for every mask m, after a configureDirection(m) that returned true
\* config0 is ~m & 0xFF and config1 is ~(m>>8) & 0xFF; likewise intenable0
\* and intenable1 after interruptEnableGPIO(m), and ledmode0 and ledmode1
\* after configureLEDMode(m).
C4_InversionLaw ==
    LET m == last.arg
        stored(base) == /\ regs[base] = InvByte(m)
                        /\ regs[base + 1] = InvByte(m \div 256)
    IN  /\ (last.op = "configureDirection" /\ last.ret = 1)
               => stored(AW9523_REG_CONFIG0)
        /\ (last.op = "interruptEnableGPIO" /\ last.ret = 1)
               => stored(AW9523_REG_INTENABLE0)
        /\ (last.op = "configureLEDMode" /\ last.ret = 1)
               => stored(AW9523_REG_LEDMODE0)

\* C4 witness: configureDirection(0x1234) returned true on a device whose
\* config registers held something else.
C4_Witness ==
    /\ last.op = "configureDirection" /\ last.ret = 1 /\ last.arg = 4660
    /\ regs[AW9523_REG_CONFIG0] = 203 /\ regs[AW9523_REG_CONFIG1] = 237
    /\ pre[AW9523_REG_CONFIG0] # 203 /\ pre[AW9523_REG_CONFIG1] # 237

\* C5: begin returns false whenever one of its steps fails (the transport
\* does not open, a transaction is not acknowledged, or the chip-ID read does
\* not give the signature); it returns true only when every step succeeded.
C5_BeginFailsWhenAStepFails ==
    (last.op = "begin" /\ last.ret = 1) =>
        /\ AllAcked(last.trace)
        /\ \E i \in 1 .. Len(last.trace) :
               /\ last.trace[i].kind = "read"
               /\ last.trace[i].addr = AW9523_REG_CHIPID
               /\ last.trace[i].data = <<CHIP_SIGNATURE>>

\* C6: in every run of begin the first register access is the soft-reset
\* write and it precedes the chip-ID read; when the chip-ID read gives a
\* value other than 0x23, begin returns false and makes no write to the
\* config, global-control or interrupt-enable registers after that read.
C6_BeginOrder ==
    last.op = "begin" =>
        LET t == last.trace
            access(i) == t[i].kind # "open"
            isReset(i) == t[i].kind = "write" /\ t[i].addr = AW9523_REG_SOFTRESET
            isIdRead(i) == t[i].kind = "read" /\ t[i].addr = AW9523_REG_CHIPID
            configured == {AW9523_REG_CONFIG0, AW9523_REG_CONFIG1, AW9523_REG_GCR,
                           AW9523_REG_INTENABLE0, AW9523_REG_INTENABLE1}
        IN  /\ \A i \in 1 .. Len(t) :
                   (access(i) /\ \A j \in 1 .. (i - 1) : ~access(j)) => isReset(i)
            /\ \A i \in 1 .. Len(t) :
                   isIdRead(i) => \E j \in 1 .. (i - 1) : isReset(j)
            /\ \A i \in 1 .. Len(t) :
                   (isIdRead(i) /\ t[i].data # <<CHIP_SIGNATURE>>) =>
                       /\ last.ret = 0
                       /\ \A j \in (i + 1) .. Len(t) :
                              \A a \in configured : ~Writes(t[j], a)
                       /\ \A a \in configured : regs[a] = pre[a]

\* C6 witness: a begin whose chip-ID read was acknowledged and gave 0x22.
C6_Witness ==
    /\ last.op = "begin" /\ last.ret = 0
    /\ \E i \in 1 .. Len(last.trace) :
           /\ last.trace[i].kind = "read"
           /\ last.trace[i].addr = AW9523_REG_CHIPID
           /\ last.trace[i].data = <<34>>

\* C7: for every pin p and prior content, after an acknowledged
\* pinMode(p, mode) the bits at p mod 8 of the config and ledmode registers
\* of p's port are 0 and 1 for OUTPUT, 1 and 1 for INPUT, 0 and 0 for the LED
\* mode, and every other bit of config0, config1, ledmode0 and ledmode1 is
\* what it was before.
C7_PinModeBits ==
    (last.op = "pinMode" /\ AllAcked(last.trace)) =>
        LET c == PortReg(AW9523_REG_CONFIG0, last.pin)
            l == PortReg(AW9523_REG_LEDMODE0, last.pin)
            k == last.pin % 8
            cbit == BitAt(regs[c], k)
            lbit == BitAt(regs[l], k)
            pair == {AW9523_REG_CONFIG0, AW9523_REG_CONFIG1,
                     AW9523_REG_LEDMODE0, AW9523_REG_LEDMODE1}
        IN  /\ last.arg = OUTPUT => (cbit = 0 /\ lbit = 1)
            /\ last.arg = INPUT => (cbit = 1 /\ lbit = 1)
            /\ last.arg = AW9523_LED_MODE => (cbit = 0 /\ lbit = 0)
            /\ SameButBit(regs, pre, c, k)
            /\ SameButBit(regs, pre, l, k)
            /\ \A a \in pair \ {c, l} : regs[a] = pre[a]

\* C7 witness: pinMode(12, LED mode) on a device whose two bits were 1.
C7_Witness ==
    /\ last.op = "pinMode" /\ AllAcked(last.trace)
    /\ last.pin = 12 /\ last.arg = AW9523_LED_MODE
    /\ BitAt(pre[AW9523_REG_CONFIG1], 4) = 1
    /\ BitAt(pre[AW9523_REG_LEDMODE1], 4) = 1
    /\ BitAt(regs[AW9523_REG_CONFIG1], 4) = 0
    /\ BitAt(regs[AW9523_REG_LEDMODE1], 4) = 0

\* C8: for every pin p and value v, analogWrite(p, v) makes exactly one
\* transaction, a write of the single byte v to 0x24+p for p in 0..7, to
\* 0x20+(p-8) for p in 8..11 and to 0x2C+(p-12) for p in 12..15, and no
\* register but that one changes.
C8_AnalogWriteRegister ==
    last.op = "analogWrite" =>
        LET p == last.pin
            a == IF p <= 7 THEN 36 + p
                 ELSE IF p <= 11 THEN 32 + (p - 8)
                 ELSE 44 + (p - 12)
            t == last.trace
        IN  /\ Len(t) = 1
            /\ t[1].kind = "write" /\ t[1].addr = a /\ t[1].data = <<last.arg>>
            /\ SameOutside(regs, pre, {a})
            /\ t[1].ack => regs[a] = last.arg

\* C8 witness: analogWrite(13, 165) reached register 0x2D, which held
\* something else.
C8_Witness ==
    /\ last.op = "analogWrite" /\ last.pin = 13 /\ last.arg = 165
    /\ AllAcked(last.trace)
    /\ regs[45] = 165 /\ pre[45] # 165

\* C9: for every prior content of the global-control register, after an
\* acknowledged openDrainPort0(od) bit 4 of that register is the inverse of
\* od, its other seven bits are what they were, and no other register has
\* changed.
C9_OpenDrainBit ==
    (last.op = "openDrainPort0" /\ AllAcked(last.trace)) =>
        /\ BitAt(regs[AW9523_REG_GCR], 4) = 1 - last.arg
        /\ SameButBit(regs, pre, AW9523_REG_GCR, 4)
        /\ SameOutside(regs, pre, {AW9523_REG_GCR})

\* C9 witness: openDrainPort0(true) on a device whose global-control register
\* held 0xFF; it holds 0xEF afterwards.
C9_Witness ==
    /\ last.op = "openDrainPort0" /\ last.arg = 1 /\ AllAcked(last.trace)
    /\ pre[AW9523_REG_GCR] = 255
    /\ regs[AW9523_REG_GCR] = 239

\* C10: each bulk write changes only the two port registers of its own
\* function; every other register holds after the call what it held before.
C10_BulkWriteFrame ==
    LET own(base) == SameOutside(regs, pre, {base, base + 1})
    IN  /\ last.op = "outputGPIO" => own(AW9523_REG_OUTPUT0)
        /\ last.op = "configureDirection" => own(AW9523_REG_CONFIG0)
        /\ last.op = "interruptEnableGPIO" => own(AW9523_REG_INTENABLE0)
        /\ last.op = "configureLEDMode" => own(AW9523_REG_LEDMODE0)

====
